---- MODULE Spec2Model ----
(***************************************************************************)
(* Job lifecycle and concurrency core of ytdown (src/app.py; the HTTPS     *)
(* variant src/app-https-requires-certbot.py shares the same helpers):     *)
(* the token-keyed registry DOWNLOADS, the per-client limiter IP_LIMITS,   *)
(* the ThreadPoolExecutor running download_worker, the progress hook, and  *)
(* the two sleeping timer threads armed after a successful download.       *)
(*                                                                         *)
(* Every `with LOCK:` block of the source is one atomic action, except in  *)
(* SpecLock, where taking LOCK and running the block are two steps.  Time is*)
(* counted in seconds and advances in steps of Quantum; a timer thread     *)
(* acts as soon as its sleep is over (Tick waits for due timers).          *)
(* The engine's return and the worker's LOCK block that follows it are one *)
(* step, and so is the arming of the two timers; threading.Thread.start is *)
(* taken not to fail.  Record fields no code path reads (speed, eta, byte   *)
(* counts, started, video_id) are left out.                                *)
(*                                                                         *)
(* Spec explores two callers and two tokens within one UTC day, SpecQuota  *)
(* the limiter up to its cap and across midnight, SpecPool more accepted   *)
(* submissions than pool threads within one Quantum (SpecFairPool: with    *)
(* scheduled threads), SpecPoll the not-json poll loop of watch(),          *)
(* SpecBytes the byte counts the engine reports to the progress hook.       *)
(***************************************************************************)
EXTENDS Integers, Sequences, FiniteSets, TLC

VARIABLES
    DOWNLOADS,    \* token -> record | None          (app.py:36)
    IP_LIMITS,    \* ip -> [date, count] | None       (app.py:37)
    day,          \* the current UTC date, as a day number (today())
    inflight,     \* ip -> number of watch() calls between check_ip_limit and the create block
    queue,        \* the executor's FIFO work queue
    running,      \* the download_worker calls executing on pool threads
    files,        \* the paths that exist under DOWNLOAD_DIR
    tokenTimers,  \* sleeping schedule_token_expire threads
    fileTimers,   \* sleeping schedule_delete threads
    nextJob,      \* history: number of the next accepted submission
    admitted,     \* history: ip -> number of check_ip_limit calls that returned True today
    purged,       \* history: the tokens whose record a token-expiry timer removed last
    pollers,      \* the watch() calls waiting in the not-json poll loop
    scope,        \* the universe explored by the specification (never changes)
    lock          \* LOCK: the critical section that holds it, or Free   (app.py:38)

\* Everything but LOCK.
data == <<DOWNLOADS, IP_LIMITS, day, inflight, queue, running, files,
          tokenTimers, fileTimers, nextJob, admitted, purged, pollers, scope>>

vars == <<data, lock>>

\* Python's None, and an absent dictionary key.
None == [none |-> TRUE]

\* threading.Lock(), not held.
Free == [op |-> "free", arg |-> None]

\* ------------------------------------------------------------------ configuration

MAX_PARALLEL_DOWNLOADS == 4
TOKEN_EXPIRE_SECONDS == 300
FILE_DELETE_SECONDS == 360
MAX_DOWNLOADS_PER_DAY == 10

\* The containers watch() accepts, and the ones a caller may ask for.
Formats == {"mp4", "webm"}
RequestFormats == Formats \cup {"avi"}

\* ------------------------------------------------------------------ bounds

MaxSubmits == 2       \* Spec: admitted watch() calls per day
MaxInflight == 2      \* watch() calls in flight between their two critical sections
QuotaJobs == 1        \* SpecQuota: accepted submissions per run
QuotaDays == 1        \* SpecQuota: midnights per run
PoolJobs == 5         \* SpecPool: admitted watch() calls per run, one token each
PollJobs == 2         \* SpecPoll: accepted not-json submissions per run
MaxBytes == 3         \* SpecBytes: largest byte count the engine reports
LockJobs == 1         \* SpecLock: accepted not-json submissions per run

\* SpecQuota: admitted watch() calls per day, enough for one caller to pass the cap.
QuotaSubmits == MAX_DOWNLOADS_PER_DAY + 1

\* The step of the clock: both delays are multiples of it.
Quantum == FILE_DELETE_SECONDS - TOKEN_EXPIRE_SECONDS

Tokens == DOMAIN DOWNLOADS
IPs == DOMAIN IP_LIMITS

\* ------------------------------------------------------------------ helpers

today == day

\* check_ip_limit with the cap compared by > instead of >=.
check_ip_limit_off_by_one(ip) ==
    LET entry == IP_LIMITS[ip] IN
    IF entry = None \/ entry.date # today
    THEN [ok |-> TRUE,
          limits |-> [IP_LIMITS EXCEPT ![ip] = [date |-> today, count |-> 1]]]
    ELSE IF entry.count > MAX_DOWNLOADS_PER_DAY
    THEN [ok |-> FALSE, limits |-> IP_LIMITS]
    ELSE [ok |-> TRUE,
          limits |-> [IP_LIMITS EXCEPT ![ip].count = entry.count + 1]]

\* check_ip_limit counting the rejected call as well.
check_ip_limit_counts_rejects(ip) ==
    LET entry == IP_LIMITS[ip] IN
    IF entry = None \/ entry.date # today
    THEN [ok |-> TRUE,
          limits |-> [IP_LIMITS EXCEPT ![ip] = [date |-> today, count |-> 1]]]
    ELSE [ok |-> entry.count < MAX_DOWNLOADS_PER_DAY,
          limits |-> [IP_LIMITS EXCEPT ![ip].count = entry.count + 1]]

\* check_ip_limit(ip): the admission decision and the limiter after it.
check_ip_limit(ip) ==
    LET entry == IP_LIMITS[ip] IN
    IF entry = None \/ entry.date # today
    THEN [ok |-> TRUE,
          limits |-> [IP_LIMITS EXCEPT ![ip] = [date |-> today, count |-> 1]]]
    ELSE IF entry.count >= MAX_DOWNLOADS_PER_DAY
    THEN [ok |-> FALSE, limits |-> IP_LIMITS]
    ELSE [ok |-> TRUE,
          limits |-> [IP_LIMITS EXCEPT ![ip].count = entry.count + 1]]

\* os.path.join(DOWNLOAD_DIR, f"{token}.{fmt}")
output_path(token, fmt) == [token |-> token, fmt |-> fmt]

\* schedule_token_expire(token, delay): one more sleeping thread.
schedule_token_expire(token, delay, job) ==
    tokenTimers \cup {[token |-> token, rem |-> delay, job |-> job]}

\* schedule_delete(path, delay): one more sleeping thread.
schedule_delete(path, delay, job) ==
    fileTimers \cup {[path |-> path, rem |-> delay, job |-> job]}

\* round(x, 2) of x = 100 * downloaded / total, in hundredths of a percent
\* (ties to even, as Python rounds).
percent_of(downloaded, total) ==
    LET n == downloaded * 10000
        q == n \div total
        r == n % total
    IN  IF 2 * r > total THEN q + 1
        ELSE IF 2 * r = total THEN q + (q % 2)
        ELSE q

\* The record watch() stores for an accepted submission.
new_record(token, ip, fmt, job) ==
    [token |-> token, ip |-> ip, format |-> fmt, status |-> "queued",
     percent |-> 0, file |-> None, error |-> None,
     \* history: the submission's number, and the seconds since it was finalized
     job |-> job, age |-> 0]

\* d.get(key, default)
get(d, key, default) == IF key \in DOMAIN d THEN d[key] ELSE default

\* d.get("total_bytes") or d.get("total_bytes_estimate"); a key the engine
\* leaves out or sets to None reads as 0 here, which `if total` treats alike.
total_of(d) ==
    IF get(d, "total_bytes", 0) # 0 THEN d["total_bytes"]
    ELSE get(d, "total_bytes_estimate", 0)

\* progress_hook(d): the registry after the engine's callback for `token`.
progress_hook(token, d) ==
    LET info == DOWNLOADS[token] IN
    IF info = None THEN DOWNLOADS
    ELSE IF d.status = "downloading"
    THEN [DOWNLOADS EXCEPT ![token] =
            [info EXCEPT !.status = "downloading",
                         !.percent = IF total_of(d) # 0
                                     THEN percent_of(get(d, "downloaded_bytes", 0),
                                                     total_of(d))
                                     ELSE 0]]
    ELSE IF d.status = "finished"
    THEN [DOWNLOADS EXCEPT ![token] =
            [info EXCEPT !.status = "processing", !.percent = 10000]]
    ELSE DOWNLOADS

\* worker_done forgetting the file.
worker_done_without_file(token, path) ==
    IF DOWNLOADS[token] # None
    THEN [DOWNLOADS EXCEPT ![token] = [DOWNLOADS[token] EXCEPT !.status = "done"]]
    ELSE DOWNLOADS

\* download_worker, after ydl.download returned: the first `with LOCK:` block.
worker_done(token, path) ==
    IF DOWNLOADS[token] # None
    THEN [DOWNLOADS EXCEPT ![token] =
            [DOWNLOADS[token] EXCEPT !.status = "done", !.file = path]]
    ELSE DOWNLOADS

\* An exception handler that leaves the record as it is.
worker_error_swallowed(token) == DOWNLOADS

\* download_worker, in `except Exception as e`: the second `with LOCK:` block.
worker_error(token) ==
    IF DOWNLOADS[token] # None
    THEN [DOWNLOADS EXCEPT ![token] =
            [DOWNLOADS[token] EXCEPT !.status = "error", !.error = [message |-> "str(e)"]]]
    ELSE DOWNLOADS

\* The timers download_worker arms after a successful download.
timers_after_done(token, path, job) ==
    [token |-> schedule_token_expire(token, TOKEN_EXPIRE_SECONDS, job),
     file |-> schedule_delete(path, FILE_DELETE_SECONDS, job)]

\* The timers download_worker arms in its exception handler: none.
timers_after_error(token, path, job) ==
    [token |-> tokenTimers, file |-> fileTimers]

\* watch(), up to check_ip_limit: the status code it answers with (200: goes on).
watch_admit_code(ip, has_v) ==
    IF ~has_v THEN 400
    ELSE IF ~check_ip_limit(ip).ok THEN 429
    ELSE 200

\* The create block without its `if token in DOWNLOADS` test.
watch_create_code_unchecked(token, fmt) ==
    IF fmt \notin Formats THEN 400 ELSE 200

\* watch(), the create block: the status code it answers with.
watch_create_code(token, fmt) ==
    IF fmt \notin Formats THEN 400
    ELSE IF DOWNLOADS[token] # None THEN 409
    ELSE 200

\* progress(): the response to `ip` asking for `token`.
progress(token, ip) ==
    LET info == DOWNLOADS[token] IN
    IF info = None THEN [code |-> 404, body |-> None]
    ELSE IF info.ip # ip THEN [code |-> 403, body |-> None]
    ELSE [code |-> 200, body |-> info]

\* download(): the response to `ip` asking for `token`.
download(token, ip) ==
    LET info == DOWNLOADS[token] IN
    IF info = None \/ info.status # "done" THEN [code |-> 409, body |-> None]
    ELSE IF info.ip # ip THEN [code |-> 403, body |-> None]
    ELSE [code |-> 200, body |-> info.file]

\* ------------------------------------------------------------------ initial state

\* The callbacks the engine makes: a "downloading" event half way, and "finished".
CoreEvents ==
    {[status |-> "downloading", downloaded_bytes |-> 1, total_bytes |-> 2],
     [status |-> "finished"]}

InitWith(tokens, ips, sc) ==
    /\ DOWNLOADS = [t \in tokens |-> None]
    /\ IP_LIMITS = [i \in ips |-> None]
    /\ day = 1
    /\ inflight = [i \in ips |-> 0]
    /\ queue = <<>>
    /\ running = {}
    /\ files = {}
    /\ tokenTimers = {}
    /\ fileTimers = {}
    /\ nextJob = 1
    /\ admitted = [i \in ips |-> 0]
    /\ purged = {}
    /\ pollers = {}
    /\ scope = sc
    /\ lock = Free

\* Spec: two callers, two caller-chosen tokens, runs within one UTC day.
Init ==
    InitWith({"t1", "t2"}, {"a", "b"},
             [maxJobs |-> MaxSubmits, maxSubmits |-> MaxSubmits, maxDay |-> 0,
              maxInflight |-> MaxInflight, events |-> CoreEvents,
              formats |-> {"mp4", "avi"}, uuid |-> FALSE, json |-> {TRUE}])

\* SpecQuota: two callers who exhaust their daily quota, across midnight.
InitQuota ==
    InitWith({"t1"}, {"a", "b"},
             [maxJobs |-> QuotaJobs, maxSubmits |-> QuotaSubmits, maxDay |-> QuotaDays,
              maxInflight |-> MaxInflight, events |-> {[status |-> "finished"]},
              formats |-> {"mp4", "avi"}, uuid |-> FALSE, json |-> {TRUE}])

\* SpecPool: one caller, more submissions than pool threads, every token
\* drawn by uuid.uuid4() (token k is the k-th one drawn), within one Quantum.
InitPool ==
    InitWith(1 .. PoolJobs, {"a"},
             [maxJobs |-> PoolJobs, maxSubmits |-> PoolJobs, maxDay |-> 0,
              maxInflight |-> 1, events |-> {[status |-> "finished"]},
              formats |-> {"mp4"}, uuid |-> TRUE, json |-> {TRUE}])

\* ------------------------------------------------------------------ watch()

RECURSIVE SumOver(_, _)
SumOver(f, S) == IF S = {} THEN 0
                 ELSE LET k == CHOOSE x \in S : TRUE IN f[k] + SumOver(f, S \ {k})

InflightTotal == SumOver(inflight, DOMAIN inflight)
AdmittedTotal == SumOver(admitted, DOMAIN admitted)

\* watch() up to and including check_ip_limit(ip).  A request without `v` is
\* answered 400 before the limiter is asked.
watch_admit(ip, has_v) ==
    /\ AdmittedTotal < scope.maxSubmits
    /\ InflightTotal < scope.maxInflight
    /\ IF ~has_v
       THEN UNCHANGED <<IP_LIMITS, inflight, admitted>>
       ELSE LET r == check_ip_limit(ip) IN
            /\ IP_LIMITS' = r.limits
            /\ inflight' = IF r.ok THEN [inflight EXCEPT ![ip] = @ + 1] ELSE inflight
            /\ admitted' = IF r.ok THEN [admitted EXCEPT ![ip] = @ + 1]
                           ELSE admitted
    /\ UNCHANGED <<DOWNLOADS, day, queue, running, files, tokenTimers, fileTimers,
                   nextJob, purged, pollers, scope>>

\* A watch() call entering its not-json loop: about to run the first LOCK block.
new_poller(token, job) == [token |-> token, job |-> job, pc |-> "first", sent |-> None]

\* watch() after admission: the format check, the create block under LOCK and
\* executor.submit; with json=false the call goes on into the poll loop.
watch_create(ip, token, fmt) ==
    /\ inflight[ip] > 0
    /\ scope.uuid => token = nextJob
    /\ inflight' = [inflight EXCEPT ![ip] = @ - 1]
    /\ IF watch_create_code(token, fmt) = 200
       THEN /\ nextJob <= scope.maxJobs
            /\ DOWNLOADS' = [DOWNLOADS EXCEPT ![token] = new_record(token, ip, fmt, nextJob)]
            /\ queue' = Append(queue, [token |-> token, fmt |-> fmt, job |-> nextJob])
            /\ nextJob' = nextJob + 1
            /\ purged' = purged \ {token}
            /\ \E as_json \in scope.json :
                  pollers' = IF as_json THEN pollers
                             ELSE pollers \cup {new_poller(token, nextJob)}
       ELSE UNCHANGED <<DOWNLOADS, queue, nextJob, purged, pollers>>
    /\ UNCHANGED <<IP_LIMITS, day, running, files, tokenTimers, fileTimers,
                   admitted, scope>>

\* ------------------------------------------------------------------ the pool

\* A pool that starts a thread while max_workers are busy.
slot_free_off_by_one == Cardinality(running) <= MAX_PARALLEL_DOWNLOADS

\* ThreadPoolExecutor(max_workers=MAX_PARALLEL_DOWNLOADS): a thread is free.
slot_free == Cardinality(running) < MAX_PARALLEL_DOWNLOADS

\* A free pool thread takes the oldest queued call of download_worker.
worker_start ==
    /\ queue # <<>>
    /\ slot_free
    /\ running' = running \cup {Head(queue)}
    /\ queue' = Tail(queue)
    /\ UNCHANGED <<DOWNLOADS, IP_LIMITS, day, inflight, files, tokenTimers, fileTimers,
                   nextJob, admitted, purged, pollers, scope, lock>>

\* The engine calls progress_hook(d) from inside ydl.download.
hook(w, d) ==
    /\ DOWNLOADS' = progress_hook(w.token, d)
    /\ UNCHANGED <<IP_LIMITS, day, inflight, queue, running, files, tokenTimers,
                   fileTimers, nextJob, admitted, purged, pollers, scope>>

\* ydl.download returns with the merged file at output_path; download_worker
\* marks the record done and arms the two timers.
download_worker_done(w) ==
    /\ files' = files \cup {output_path(w.token, w.fmt)}
    /\ DOWNLOADS' = worker_done(w.token, output_path(w.token, w.fmt))
    /\ LET t == timers_after_done(w.token, output_path(w.token, w.fmt), w.job) IN
       /\ tokenTimers' = t.token
       /\ fileTimers' = t.file
    /\ running' = running \ {w}
    /\ UNCHANGED <<IP_LIMITS, day, inflight, queue, nextJob, admitted, purged, pollers, scope>>

\* ydl.download raises; download_worker's exception handler marks the record.
download_worker_error(w) ==
    /\ DOWNLOADS' = worker_error(w.token)
    /\ LET t == timers_after_error(w.token, output_path(w.token, w.fmt), w.job) IN
       /\ tokenTimers' = t.token
       /\ fileTimers' = t.file
    /\ running' = running \ {w}
    /\ UNCHANGED <<IP_LIMITS, day, inflight, queue, files, nextJob, admitted,
                   purged, pollers, scope>>

\* ------------------------------------------------------------------ timers

\* schedule_token_expire's thread wakes up: DOWNLOADS.pop(token, None).
token_expire(tm) ==
    /\ tm.rem = 0
    /\ DOWNLOADS' = [DOWNLOADS EXCEPT ![tm.token] = None]
    /\ tokenTimers' = tokenTimers \ {tm}
    /\ purged' = IF DOWNLOADS[tm.token] # None THEN purged \cup {tm.token} ELSE purged
    /\ UNCHANGED <<IP_LIMITS, day, inflight, queue, running, files, fileTimers,
                   nextJob, admitted, pollers, scope>>

\* schedule_delete's thread wakes up: os.remove(path) if it exists.
file_delete(tm) ==
    /\ tm.rem = 0
    /\ files' = files \ {tm.path}
    /\ fileTimers' = fileTimers \ {tm}
    /\ UNCHANGED <<DOWNLOADS, IP_LIMITS, day, inflight, queue, running, tokenTimers,
                   nextJob, admitted, purged, pollers, scope, lock>>

Terminal == {"done", "error"}

\* The age of a finalized record stops counting one Quantum past the expiry delay.
AgeCap == TOKEN_EXPIRE_SECONDS + Quantum

Aging(t) == /\ DOWNLOADS[t] # None
            /\ DOWNLOADS[t].status \in Terminal
            /\ DOWNLOADS[t].age < AgeCap

\* Quantum seconds pass; no thread whose sleep is over is kept waiting.
Tick ==
    /\ \A tm \in tokenTimers \cup fileTimers : tm.rem >= Quantum
    /\ \/ tokenTimers \cup fileTimers # {}
       \/ \E t \in Tokens : Aging(t)
    /\ tokenTimers' = {[tm EXCEPT !.rem = @ - Quantum] : tm \in tokenTimers}
    /\ fileTimers' = {[tm EXCEPT !.rem = @ - Quantum] : tm \in fileTimers}
    /\ DOWNLOADS' = [t \in Tokens |->
                       IF Aging(t) THEN [DOWNLOADS[t] EXCEPT !.age = @ + Quantum]
                       ELSE DOWNLOADS[t]]
    /\ UNCHANGED <<IP_LIMITS, day, inflight, queue, running, files,
                   nextJob, admitted, purged, pollers, scope, lock>>

\* Midnight UTC.
NextDay ==
    /\ day <= scope.maxDay
    /\ day' = day + 1
    /\ admitted' = [i \in IPs |-> 0]
    /\ UNCHANGED <<DOWNLOADS, IP_LIMITS, inflight, queue, running, files, tokenTimers,
                   fileTimers, nextJob, purged, pollers, scope, lock>>

\* ------------------------------------------------------------------ readers

\* GET /progress and GET /download read the registry under LOCK and write nothing.
Progress(token, ip) ==
    /\ progress(token, ip).code \in {200, 403, 404}
    /\ UNCHANGED data

Download(token, ip) ==
    /\ download(token, ip).code \in {200, 403, 409}
    /\ UNCHANGED data

\* ------------------------------------------------------------------ the poll loop

\* The pc of a watch() call that has left its poll loop: abort(410),
\* return send_file(...), abort(500).
PollExits == {"gone", "sent", "failed"}

\* The second block without its test for status error.
poll_second_ignores_error(token) ==
    LET info == DOWNLOADS[token] IN
    IF info = None THEN "gone"
    ELSE IF info.status = "done" /\ info.file # None THEN "sent"
    ELSE "first"

\* The first `with LOCK:` block of an iteration: abort(410) if the record is
\* absent (the file_path it assigns is never read).
poll_first(token) ==
    IF DOWNLOADS[token] = None THEN "gone" ELSE "second"

\* The second `with LOCK:` block of an iteration, then time.sleep(0.25).
poll_second(token) ==
    LET info == DOWNLOADS[token] IN
    IF info = None THEN "gone"
    ELSE IF info.status = "done" /\ info.file # None THEN "sent"
    ELSE IF info.status = "error" THEN "failed"
    ELSE "first"

\* One `with LOCK:` block of the poll loop of the waiting call p.
poll(p) ==
    /\ p.pc \notin PollExits
    /\ LET pc == IF p.pc = "first" THEN poll_first(p.token) ELSE poll_second(p.token) IN
       pollers' = (pollers \ {p}) \cup
                  {[p EXCEPT !.pc = pc,
                             !.sent = IF pc = "sent" THEN DOWNLOADS[p.token].file ELSE None]}
    /\ UNCHANGED <<DOWNLOADS, IP_LIMITS, day, inflight, queue, running, files,
                   tokenTimers, fileTimers, nextJob, admitted, purged, scope>>

\* ------------------------------------------------------------------ specification

\* A `with LOCK:` block taken as one step: LOCK is free before and after it.
Atomic == lock = Free /\ lock' = Free

Watch == Atomic /\ \E ip \in IPs, has_v \in BOOLEAN : watch_admit(ip, has_v)
Create == Atomic /\ \E ip \in IPs, token \in Tokens, fmt \in scope.formats :
                        watch_create(ip, token, fmt)
Hook == Atomic /\ \E w \in running, d \in scope.events : hook(w, d)
WorkerDone == Atomic /\ \E w \in running : download_worker_done(w)
WorkerError == Atomic /\ \E w \in running : download_worker_error(w)
TokenExpire == Atomic /\ \E tm \in tokenTimers : token_expire(tm)
FileDelete == \E tm \in fileTimers : file_delete(tm)
GetProgress == Atomic /\ \E token \in Tokens, ip \in IPs : Progress(token, ip)
GetDownload == Atomic /\ \E token \in Tokens, ip \in IPs : Download(token, ip)
Poll == Atomic /\ \E p \in pollers : poll(p)

Core ==
    \/ Watch
    \/ Create
    \/ worker_start
    \/ Hook
    \/ WorkerDone
    \/ WorkerError
    \/ GetProgress
    \/ GetDownload

Timers ==
    \/ TokenExpire
    \/ FileDelete
    \/ Tick

Next == Core \/ Timers
NextQuota == Core \/ Timers \/ NextDay
NextPool == Core

Spec == Init /\ [][Next]_vars
SpecQuota == InitQuota /\ [][NextQuota]_vars
SpecPool == InitPool /\ [][NextPool]_vars

\* The callbacks of SpecBytes: "downloading" events with every byte count up to
\* MaxBytes, the total given as total_bytes, as total_bytes_estimate or not at
\* all (a total of None reads like a missing one), and "finished".
BytesEvents ==
    {[status |-> "downloading", downloaded_bytes |-> n, total_bytes |-> m] :
        n \in 0 .. MaxBytes, m \in 0 .. MaxBytes}
    \cup {[status |-> "downloading", downloaded_bytes |-> n, total_bytes_estimate |-> m] :
        n \in 0 .. MaxBytes, m \in 1 .. MaxBytes}
    \cup {[status |-> "downloading", downloaded_bytes |-> n] : n \in 0 .. MaxBytes}
    \cup {[status |-> "finished"]}

\* SpecBytes: one caller, two tokens, an engine reporting byte counts.
InitBytes ==
    InitWith({"t1", "t2"}, {"a"},
             [maxJobs |-> 2, maxSubmits |-> 2, maxDay |-> 0,
              maxInflight |-> 1, events |-> BytesEvents,
              formats |-> {"mp4"}, uuid |-> FALSE, json |-> {TRUE}])

NextBytes == Core

SpecBytes == InitBytes /\ [][NextBytes]_vars

\* ------------------------------------------------------------------ LOCK in two steps

\* The block of the critical section `op` entered with the values `arg`.
Section(op, arg) ==
    \/ op = "check_ip_limit" /\ watch_admit(arg.ip, TRUE)
    \/ op = "create" /\ watch_create(arg.ip, arg.token, arg.fmt)
    \/ op = "hook" /\ hook(arg.w, arg.d)
    \/ op = "done" /\ download_worker_done(arg.w)
    \/ op = "error" /\ download_worker_error(arg.w)
    \/ op = "expire" /\ token_expire(arg.tm)
    \/ op = "progress" /\ Progress(arg.token, arg.ip)
    \/ op = "download" /\ Download(arg.token, arg.ip)
    \/ op = "poll" /\ poll(arg.p)

\* A poll loop whose time.sleep is inside the `with LOCK:` block.
lock_after_sleeping_inside(sec) ==
    IF sec.op = "poll" THEN [op |-> "sleep", arg |-> None] ELSE Free

\* LOCK after the block of a section: `with LOCK:` releases it however the
\* block is left (its end, a return, the exception raised by abort()), and no
\* block sleeps, joins a thread or takes LOCK again.
lock_after(sec) == Free

\* `with LOCK:` entered by a thread that is about to run Section(op, arg).
acquire(op, arg) ==
    /\ lock = Free
    /\ ENABLED (Section(op, arg) /\ lock' = Free)
    /\ lock' = [op |-> op, arg |-> arg]
    /\ UNCHANGED data

\* The holder runs its block and leaves the `with` statement.
Unlock ==
    /\ lock # Free
    /\ Section(lock.op, lock.arg)
    /\ lock' = lock_after(lock)

LockWatch == \E ip \in IPs : acquire("check_ip_limit", [ip |-> ip])
LockCreate == \E ip \in IPs, token \in Tokens, fmt \in scope.formats :
                  acquire("create", [ip |-> ip, token |-> token, fmt |-> fmt])
LockHook == \E w \in running, d \in scope.events : acquire("hook", [w |-> w, d |-> d])
LockDone == \E w \in running : acquire("done", [w |-> w])
LockError == \E w \in running : acquire("error", [w |-> w])
LockExpire == \E tm \in tokenTimers : acquire("expire", [tm |-> tm])
LockProgress == \E token \in Tokens, ip \in IPs :
                    acquire("progress", [token |-> token, ip |-> ip])
LockDownload == \E token \in Tokens, ip \in IPs :
                    acquire("download", [token |-> token, ip |-> ip])
LockPollOf(j) == \E p \in pollers : p.job = j /\ acquire("poll", [p |-> p])
LockPoll == \E p \in pollers : acquire("poll", [p |-> p])

\* SpecLock: one caller submitting one token with json=false, every
\* `with LOCK:` block in two steps.  The holder of LOCK runs, pool threads are
\* scheduled, the engine returns, and LOCK is handed out fairly.
InitLock ==
    InitWith({"t1"}, {"a"},
             [maxJobs |-> LockJobs, maxSubmits |-> LockJobs, maxDay |-> 0,
              maxInflight |-> 1, events |-> {[status |-> "finished"]},
              formats |-> {"mp4"}, uuid |-> FALSE, json |-> {FALSE}])

NextLock ==
    \/ LockWatch
    \/ LockCreate
    \/ LockHook
    \/ LockDone
    \/ LockError
    \/ LockExpire
    \/ LockProgress
    \/ LockDownload
    \/ LockPoll
    \/ Unlock
    \/ worker_start
    \/ FileDelete
    \/ Tick

SpecLock ==
    /\ InitLock /\ [][NextLock]_vars
    /\ WF_vars(Unlock)
    /\ WF_vars(worker_start)
    /\ SF_vars(LockDone \/ LockError)
    /\ SF_vars(LockCreate)
    /\ SF_vars(LockExpire)
    /\ \A j \in 1 .. LockJobs : SF_vars(LockPollOf(j))

\* SpecCount: two callers, two tokens, one UTC day in which no record expires.
InitCount ==
    InitWith({"t1", "t2"}, {"a", "b"},
             [maxJobs |-> MaxSubmits, maxSubmits |-> MaxSubmits, maxDay |-> 0,
              maxInflight |-> MaxInflight, events |-> CoreEvents,
              formats |-> {"mp4", "avi"}, uuid |-> FALSE, json |-> {TRUE}])

NextCount == Core

SpecCount == InitCount /\ [][NextCount]_vars

\* SpecFairPool: SpecPool with pool threads that are scheduled and an engine
\* that returns or raises.
SpecFairPool ==
    /\ InitPool /\ [][NextPool]_vars
    /\ WF_vars(worker_start)
    /\ WF_vars(WorkerDone \/ WorkerError)

\* SpecPoll: one caller submitting the same token with json=false, before and
\* after its expiry.  Pool threads are scheduled, the engine returns, and a
\* waiting call is not suspended for ever.
InitPoll ==
    InitWith({"t1"}, {"a"},
             [maxJobs |-> PollJobs, maxSubmits |-> PollJobs, maxDay |-> 0,
              maxInflight |-> 1, events |-> {[status |-> "finished"]},
              formats |-> {"mp4"}, uuid |-> FALSE, json |-> {FALSE}])

NextPoll == Core \/ Timers \/ Poll

PollOf(j) == \E p \in pollers : p.job = j /\ Atomic /\ poll(p)

SpecPoll ==
    /\ InitPoll /\ [][NextPoll]_vars
    /\ WF_vars(worker_start)
    /\ WF_vars(WorkerDone \/ WorkerError)
    /\ \A j \in 1 .. PollJobs : WF_vars(PollOf(j))

\* ------------------------------------------------------------------ properties

Live(t) == DOWNLOADS[t] # None
LiveTokens == {t \in Tokens : Live(t)}

AtCap(ip) == /\ IP_LIMITS[ip] # None
             /\ IP_LIMITS[ip].date = today
             /\ IP_LIMITS[ip].count >= MAX_DOWNLOADS_PER_DAY

\* C1: for every client and every UTC day, at most MAX_DOWNLOADS_PER_DAY calls
\* of check_ip_limit are admitted, however the calls of watch() interleave; once
\* that many were admitted today, the client's next call is answered 429.
QuotaNeverExceeded ==
    \A ip \in IPs :
        /\ admitted[ip] <= MAX_DOWNLOADS_PER_DAY
        /\ admitted[ip] = MAX_DOWNLOADS_PER_DAY =>
              /\ ~check_ip_limit(ip).ok
              /\ watch_admit_code(ip, TRUE) = 429

\* A client has used up today's quota while two of its calls are still in flight.
QuotaReached ==
    \E ip \in IPs : admitted[ip] = MAX_DOWNLOADS_PER_DAY /\ inflight[ip] >= 2

Rank(status) ==
    CASE status = "queued" -> 0
      [] status = "downloading" -> 1
      [] status = "processing" -> 2
      [] status \in Terminal -> 3

\* C2: the status of a job never goes back in the order
\* queued < downloading < processing < done/error.
StatusNeverRegresses ==
    [][\A t \in Tokens :
          (Live(t) /\ DOWNLOADS'[t] # None /\ DOWNLOADS'[t].job = DOWNLOADS[t].job)
              => Rank(DOWNLOADS[t].status) <= Rank(DOWNLOADS'[t].status)]_vars

\* C3: progress() and download() answer 403 to every caller other than the
\* owner of a live record, whatever the status of the job.
OthersAreForbidden ==
    \A t \in LiveTokens : \A ip \in IPs \ {DOWNLOADS[t].ip} :
        /\ progress(t, ip).code = 403
        /\ download(t, ip).code = 403

\* C4: while a record is live with status done, the file at its path exists.
DoneFileExists ==
    \A t \in LiveTokens :
        DOWNLOADS[t].status = "done" => DOWNLOADS[t].file \in files

\* C5: once more than the expiry delay has passed since a job was finalized
\* (done or error), its record is gone, and progress() and download() answer
\* NotFound/Gone for a token whose record expired.
ExpiredTokenIsGone ==
    \A t \in Tokens :
        /\ (Live(t) /\ DOWNLOADS[t].status \in Terminal)
              => DOWNLOADS[t].age <= TOKEN_EXPIRE_SECONDS
        /\ (t \in purged /\ ~Live(t)) =>
              \A ip \in IPs : /\ progress(t, ip).code \in {404, 410}
                              /\ download(t, ip).code \in {404, 410}

\* C6: a record is created only for a token that is not live: a create block
\* that finds the token live answers 409 and leaves the registry and the queue
\* alone, one that finds it absent stores a new record under that token only,
\* and a live record is never replaced by another submission's.
TokenCreatedOnlyWhenAbsent ==
    [][/\ \A t \in Tokens :
             (Live(t) /\ DOWNLOADS'[t] # None)
                 => /\ DOWNLOADS'[t].job = DOWNLOADS[t].job
                    /\ DOWNLOADS'[t].ip = DOWNLOADS[t].ip
       /\ \A ip \in IPs, t \in Tokens, fmt \in Formats :
             watch_create(ip, t, fmt) =>
                 IF Live(t)
                 THEN watch_create_code(t, fmt) = 409 /\ UNCHANGED <<DOWNLOADS, queue>>
                 ELSE /\ watch_create_code(t, fmt) = 200
                      /\ DOWNLOADS'[t].job = nextJob
                      /\ \A u \in Tokens \ {t} : DOWNLOADS'[u] = DOWNLOADS[u]]_vars

\* Two submissions are in flight and one of them has created its record.
CreateRace ==
    \E t \in LiveTokens : DOWNLOADS[t].status = "queued" /\ InflightTotal >= 1

ErrorArmsRemovalTimer ==
    \A t \in LiveTokens :
        DOWNLOADS[t].status = "error" =>
            /\ DOWNLOADS[t].error # None
            /\ ~ \E tm \in fileTimers : tm.job = DOWNLOADS[t].job
            /\ \E tm \in tokenTimers : tm.token = t /\ tm.job = DOWNLOADS[t].job

\* C9: a watch() call by a client at today's cap is answered 429 and changes
\* neither the limiter, nor the registry, nor the pool, nor anything else.
RejectedSubmitChangesNothing ==
    [][\A ip \in IPs :
          (AtCap(ip) /\ watch_admit(ip, TRUE))
              => /\ watch_admit_code(ip, TRUE) = 429
                 /\ UNCHANGED <<IP_LIMITS, DOWNLOADS, inflight, queue, running, files,
                                tokenTimers, fileTimers, nextJob>>]_vars

\* A client is at the cap, may call watch() again, and the registry holds a record.
RejectedSubmitPossible ==
    \E ip \in IPs : /\ AtCap(ip)
                    /\ ENABLED watch_admit(ip, TRUE)
                    /\ LiveTokens # {}

QueuedTokens == {queue[i].token : i \in 1 .. Len(queue)}

\* C10: at most MAX_PARALLEL_DOWNLOADS calls of download_worker run at once; an
\* accepted submission that found every thread busy waits in the queue with its
\* record still queued, and the pool takes it as soon as a thread is free.
PoolIsBounded ==
    /\ Cardinality(running) <= MAX_PARALLEL_DOWNLOADS
    /\ \A t \in QueuedTokens : Live(t) /\ DOWNLOADS[t].status = "queued"
    /\ \A t \in LiveTokens :
          DOWNLOADS[t].status \notin Terminal
              => t \in QueuedTokens \cup {w.token : w \in running}
    /\ (queue # <<>> /\ Cardinality(running) < MAX_PARALLEL_DOWNLOADS)
          => ENABLED worker_start

\* Every pool thread is busy and one more accepted submission waits.
PoolSaturated ==
    /\ Cardinality(running) = MAX_PARALLEL_DOWNLOADS
    /\ queue # <<>>
    /\ DOWNLOADS[Head(queue).token].status = "queued"

TasksOf(t) ==
    Cardinality({i \in 1 .. Len(queue) : queue[i].token = t})
        + Cardinality({w \in running : w.token = t})

\* C11: for every token, at most one call of download_worker is queued or
\* running at any time, also when the token is submitted again after its
\* record was purged.
OneWorkerPerToken ==
    \A t \in Tokens : TasksOf(t) <= 1

\* A token is submitted again after its purge: its second job's worker runs
\* while the first job's file timer still sleeps.
ResubmittedTokenRuns ==
    \E w \in running, tm \in fileTimers :
        tm.path.token = w.token /\ tm.job # w.job

\* send_file(path): the artifact is sent only if the file is there.
send_file(path) == path \in files

\* C12: while a record is live with status done, every download() by its owner
\* answers 200 and sends the artifact, however often it is asked, and a
\* progress() or download() call changes neither the registry, nor the limiter,
\* nor the armed timers.
OwnerRetrieveSucceeds ==
    /\ [](\A t \in LiveTokens :
             DOWNLOADS[t].status = "done"
                 => /\ download(t, DOWNLOADS[t].ip).code = 200
                    /\ send_file(download(t, DOWNLOADS[t].ip).body))
    /\ [][(GetProgress \/ GetDownload)
             => UNCHANGED <<DOWNLOADS, IP_LIMITS, tokenTimers, fileTimers>>]_vars

Polling(j) == \E p \in pollers : p.job = j /\ p.pc \notin PollExits
Exited(j) == \E p \in pollers : p.job = j /\ p.pc \in PollExits
After(p) == CHOOSE q \in pollers' : q.job = p.job

\* C13: a not-json watch() call always leaves its poll loop, given that pool
\* threads are scheduled and the engine returns: a block that finds the record
\* absent ends the call with 410, the second block ends it with send_file of
\* the record's file when it finds status done and with 500 when it finds
\* status error, and no block of the loop writes to the registry.
PollLoopTerminates ==
    /\ \A j \in 1 .. PollJobs : Polling(j) ~> Exited(j)
    /\ [][\A p \in pollers :
             poll(p) =>
                 /\ UNCHANGED <<DOWNLOADS, IP_LIMITS, tokenTimers, fileTimers, files>>
                 /\ ~Live(p.token) => After(p).pc = "gone"
                 /\ (Live(p.token) /\ p.pc = "second") =>
                       /\ DOWNLOADS[p.token].status = "done" =>
                             /\ After(p).pc = "sent"
                             /\ After(p).sent = DOWNLOADS[p.token].file
                       /\ DOWNLOADS[p.token].status = "error" => After(p).pc = "failed"
                       /\ DOWNLOADS[p.token].status \notin Terminal
                             => After(p).pc \notin PollExits]_vars

\* One waiting call was answered with the file, another found its record gone.
PollersExited ==
    \E p, q \in pollers : p.pc = "sent" /\ q.pc = "gone"

Pending(j) == \E t \in LiveTokens : DOWNLOADS[t].job = j /\ DOWNLOADS[t].status \notin Terminal
Finalized(j) == \E t \in LiveTokens : DOWNLOADS[t].job = j /\ DOWNLOADS[t].status \in Terminal

\* C15: when pool threads are scheduled and every engine call returns or
\* raises, the record of every accepted submission reaches status done or
\* error, however many submissions are queued.
EveryJobIsFinalized ==
    \A j \in 1 .. PoolJobs : Pending(j) ~> Finalized(j)

\* More submissions than pool threads were accepted and all are finalized.
AllFinalized ==
    /\ Cardinality(LiveTokens) > MAX_PARALLEL_DOWNLOADS
    /\ \A t \in LiveTokens : DOWNLOADS[t].status \in Terminal

\* The records created for ip, while no record has expired.
Accepted(ip) == {t \in LiveTokens : DOWNLOADS[t].ip = ip}

\* C16: within a day, the limiter's count for a client is the number of that
\* client's submissions that created a record (plus its calls still between
\* check_ip_limit and the create block); a submission answered 400 for its
\* container or 409 for its token is not counted.
CountIsAccepted ==
    \A ip \in IPs :
        (IP_LIMITS[ip] # None /\ IP_LIMITS[ip].date = today)
            => IP_LIMITS[ip].count = Cardinality(Accepted(ip)) + inflight[ip]

\* C17: the percent of a record is always within 0..100 (kept in hundredths):
\* a "downloading" callback stores 0 when the total is unknown (None or 0) and
\* 100 * downloaded / total otherwise, also when more bytes were downloaded
\* than the estimated total, and a "finished" callback stores 100.
PercentInRange ==
    /\ \A t \in LiveTokens : DOWNLOADS[t].percent \in 0 .. 10000
    /\ \A w \in running, d \in scope.events :
          LET percent == progress_hook(w.token, d)[w.token].percent IN
          /\ percent \in 0 .. 10000
          /\ (d.status = "downloading" /\ total_of(d) = 0) => percent = 0
          /\ (d.status = "downloading" /\ total_of(d) # 0)
                => percent = percent_of(d.downloaded_bytes, total_of(d))
          /\ d.status = "finished" => percent = 10000

Tasks == {queue[i] : i \in 1 .. Len(queue)} \cup running

\* Every queued or running call of download_worker finds the record its
\* submission created.
TasksHaveRecords ==
    \A w \in Tasks : Live(w.token) /\ DOWNLOADS[w.token].job = w.job

\* C19: a record leaves the registry only through the token-expiry timer that
\* was armed when that same job became done, so no queued, downloading or
\* processing record is ever removed, a worker that finalizes its job always
\* finds the record of its own submission, and the timer of an earlier job
\* never removes the record of a later job under the same token.
RemovedOnlyByOwnTimer ==
    [][/\ \A t \in Tokens :
             (Live(t) /\ DOWNLOADS'[t] = None)
                 => /\ DOWNLOADS[t].status = "done"
                    /\ \E tm \in tokenTimers \ tokenTimers' :
                          tm.token = t /\ tm.job = DOWNLOADS[t].job
       /\ TasksHaveRecords
       /\ TasksHaveRecords']_vars

\* A token whose first record expired carries the finished record of a second job.
ReusedTokenDone ==
    \E t \in LiveTokens :
        /\ DOWNLOADS[t].job > 1
        /\ DOWNLOADS[t].status = "done"
        /\ t \notin purged
        /\ \E tm \in fileTimers : tm.path.token = t /\ tm.job < DOWNLOADS[t].job

Holds(op) == lock.op = op

\* C20: LOCK never deadlocks: whoever holds it can always run its block and
\* release it without waiting for another thread, so LOCK is always released,
\* and with a fair LOCK every thread waiting for it (a watch() call about to
\* create its record, a poll loop, a worker whose engine call returns, a
\* token-expiry timer that woke up) obtains it.
LockIsAlwaysReleased ==
    /\ [](lock # Free => ENABLED Unlock)
    /\ (lock # Free) ~> (lock = Free)
    /\ \A ip \in {"a"} : (inflight[ip] > 0) ~> Holds("create")
    /\ \A j \in 1 .. LockJobs :
          /\ Polling(j) ~> (Holds("poll") /\ lock.arg.p.job = j)
          /\ (\E w \in running : w.job = j)
                ~> ((Holds("done") \/ Holds("error")) /\ lock.arg.w.job = j)
    /\ (\E tm \in tokenTimers : tm.rem = 0) ~> Holds("expire")

\* A poll loop holds LOCK while an expiry timer that woke up waits for it.
LockContended ==
    /\ Holds("poll")
    /\ \E tm \in tokenTimers : tm.rem = 0

====
